---- MODULE Spec2Model ----
(***************************************************************************)
(* Model of the tinc provider of virtual-kubelet (package tinc):           *)
(* the in-memory pod store, the process-wide mesh identity variables, the  *)
(* generated configuration files and the docker commands issued by the     *)
(* lifecycle calls CreatePod, UpdatePod, DeletePod, GetPod, GetPodStatus   *)
(* and GetPods.  Calls are made by a small set of caller goroutines; each  *)
(* handler is split into steps at its accesses to shared state (the pods   *)
(* map, the package-level variables, the filesystem, the docker daemon).   *)
(***************************************************************************)
EXTENDS Integers, Sequences, FiniteSets, TLC

(***************************************************************************)
(* Bounds of the model.                                                    *)
(***************************************************************************)
MaxThreads == 2
MaxCalls == 2

Threads == 1..MaxThreads

(***************************************************************************)
(* Package constants.                                                      *)
(***************************************************************************)
tincAutoConnect == "yes"
tincModeSwitch == "switch"
tincDeviceTunTap == "/dev/net/tun"
tincDeviceTypeTap == "tap"
tincImageName == "quay.io/dongsupark/tinc"
defaultCPUCapacity == "20"
defaultMemoryCapacity == "100Gi"
defaultPodCapacity == "20"
DefaultTincMainName == "nodemain"
DefaultTincRemotePeers == "nodepeer"
DefaultTincMainAddress == "172.17.0.2"
DefaultTincPeerAddress == "172.17.0.3"
DefaultTincMainPrivateAddress == "10.1.1.1"
DefaultTincPeerPrivateAddress == "10.1.1.2"
DefaultTincSubnet == "10.1.1.0/24"
DefaultTincPort == 655
tincStartupConfigContainer == "/environment/default.startup.conf"
tincMainConfigContainer == "/service/tinc/data/tinc.conf"
tincUpScriptContainer == "/service/tinc/data/tinc-up"

\* myAddress and peerAddress are package variables that no code assigns.
myAddress == DefaultTincMainAddress
peerAddress == DefaultTincPeerAddress

(***************************************************************************)
(* Errors returned by the calls.  The code returns plain fmt.Errorf values *)
(* for key, filesystem and docker failures and strongerrors.NotFound for a *)
(* missing pod; the model names them by kind.                              *)
(***************************************************************************)
NoError == "nil"
ErrNamespace == "pod namespace not found"
ErrName == "pod name not found"
ErrNotFound == "NotFound"
ErrFilesystem == "FilesystemFailure"
ErrDockerRun == "failed to run docker-run"
ErrDockerRm == "failed to run docker-rm"

(***************************************************************************)
(* TincConfig and loadConfig.  A settings source maps node names to        *)
(* settings objects whose fields are strings; an omitted field is "".      *)
(* resource.ParseQuantity belongs to the Kubernetes API machinery: the     *)
(* model knows it on the strings the settings sources below contain.       *)
(***************************************************************************)
ZeroConfig ==
  [AutoConnect |-> "", ConnectTo |-> "", Device |-> "", DeviceType |-> "",
   Mode |-> "", Name |-> "", CPU |-> "", Memory |-> "", Pods |-> ""]

ValidQuantities == {"20", "100Gi", "4", "8Gi", "110"}

ParseQuantityOk_Any(s) == TRUE
ParseQuantityOk(s) == s \in ValidQuantities

NodeName == "vkubelet-tinc-0"

\* The settings sources a provider is constructed from.
ConfigSources ==
  { <<>>,
    [n \in {"other-node"} |-> [ZeroConfig EXCEPT !.Name = "elsewhere"]],
    [n \in {NodeName} |-> ZeroConfig],
    [n \in {NodeName} |-> [ZeroConfig EXCEPT !.Name = "nodepeer"]],
    [n \in {NodeName} |->
       [ZeroConfig EXCEPT !.Name = "mesh0", !.CPU = "4", !.Memory = "8Gi",
                          !.Pods = "110", !.ConnectTo = "peerA peerB"]],
    [n \in {NodeName} |-> [ZeroConfig EXCEPT !.CPU = "not-a-quantity"]],
    [n \in {NodeName} |-> [ZeroConfig EXCEPT !.Memory = "lots"]],
    [n \in {NodeName} |-> [ZeroConfig EXCEPT !.Pods = "many"]] }

OrDefault(s, d) == IF s = "" THEN d ELSE s

\* Lines 143-172: the defaults are applied only to an entry that exists.
\* tincMainName is read at line 161; it holds the value `main` when the
\* provider is constructed.
ApplyDefaults(configMap, nodeName, main) ==
  IF nodeName \in DOMAIN configMap
  THEN LET c == configMap[nodeName] IN
       [AutoConnect |-> OrDefault(c.AutoConnect, tincAutoConnect),
        ConnectTo   |-> OrDefault(c.ConnectTo, DefaultTincRemotePeers),
        Device      |-> OrDefault(c.Device, tincDeviceTunTap),
        DeviceType  |-> OrDefault(c.DeviceType, tincDeviceTypeTap),
        Mode        |-> OrDefault(c.Mode, tincModeSwitch),
        Name        |-> OrDefault(c.Name, main),
        CPU         |-> OrDefault(c.CPU, defaultCPUCapacity),
        Memory      |-> OrDefault(c.Memory, defaultMemoryCapacity),
        Pods        |-> OrDefault(c.Pods, defaultPodCapacity)]
  ELSE ZeroConfig

\* Lines 174-183: the three capacity strings are validated in this order.
loadConfig(configMap, nodeName, main) ==
  LET c == ApplyDefaults(configMap, nodeName, main) IN
  IF ~ParseQuantityOk(c.CPU) THEN [config |-> c, err |-> "Invalid CPU value"]
  ELSE IF ~ParseQuantityOk(c.Memory)
       THEN [config |-> c, err |-> "Invalid memory value"]
  ELSE IF ~ParseQuantityOk(c.Pods)
       THEN [config |-> c, err |-> "Invalid pods value"]
  ELSE [config |-> c, err |-> NoError]

(***************************************************************************)
(* Pods (workload records) and store keys.                                 *)
(***************************************************************************)
Namespaces == {"", "ns", "ns-a"}
PodNames == {"", "b", "a-b"}
VpnModes == {"", "peer"}
ContainerLists ==
  { <<[Name |-> "c1", Image |-> "img1"]>>,
    <<[Name |-> "c1", Image |-> "img1"], [Name |-> "c2", Image |-> "img2"]>> }

AllPods ==
  [Namespace : Namespaces, Name : PodNames, vpnmode : VpnModes,
   Containers : ContainerLists]

\* The pods the callers pass: every pod of three named workloads, two of
\* which ("ns"/"a-b" and "ns-a"/"b") differ in namespace and in name, and
\* one pod for each way of leaving the namespace or the name empty.
PodSet ==
  {p \in AllPods :
     IF p.Namespace = "" \/ p.Name = ""
     THEN p.vpnmode = "" /\ Len(p.Containers) = 1
     ELSE /\ <<p.Namespace, p.Name>> # <<"ns-a", "a-b">>
          /\ (p.vpnmode = "peer") = (Len(p.Containers) = 2)}

\* Line 515: fmt.Sprintf("%s-%s", namespace, name), never an error.
buildKeyFromNames(namespace, name) ==
  [key |-> namespace \o "-" \o name, err |-> NoError]

\* Lines 519-529.
buildKey(pod) ==
  IF pod.Namespace = "" THEN [key |-> "", err |-> ErrNamespace]
  ELSE IF pod.Name = "" THEN [key |-> "", err |-> ErrName]
  ELSE buildKeyFromNames(pod.Namespace, pod.Name)

(***************************************************************************)
(* State.                                                                  *)
(*   configMap     the settings source the provider was constructed from   *)
(*   constructErr  error of NewTincProvider (NoError: a provider exists)   *)
(*   config        p.config, the result of loadConfig                      *)
(*   pods          p.pods, a map from key to pod                           *)
(*   privateAddress .. tincUpScriptHost   the package-level variables      *)
(*   dirs, files   the host filesystem below /tmp                          *)
(*   running       the containers of the docker daemon, name -> mounts     *)
(*   call          each caller's current call: its position, its arguments *)
(*                 and locals, its result, and the docker commands issued  *)
(*                 and files written by it, and (history) the pod that an  *)
(*                 UpdatePod found under its key, and whether a CreatePod  *)
(*                 began in the state that a successful CreatePod of the   *)
(*                 same pod leaves                                         *)
(*   raced         whether the caller's current access to p.pods has       *)
(*                 overlapped a conflicting access of another caller       *)
(*   crashed       the Go runtime has ended the process                    *)
(*   ncalls        the number of calls made so far, counted up to MaxCalls *)
(*   origin        history: for each key of pods, the call that stored its *)
(*                 present pod                                             *)
(***************************************************************************)
VARIABLES configMap, constructErr, config, pods,
          privateAddress, tincMainName, tincPeerName,
          tincStartupConfigHost, tincMainConfigHost, tincUpScriptHost,
          dirs, files, running, call, raced, crashed, ncalls, origin

globals == <<privateAddress, tincMainName, tincPeerName,
             tincStartupConfigHost, tincMainConfigHost, tincUpScriptHost>>
host == <<dirs, files, running>>
vars == <<configMap, constructErr, config, pods, globals, host, call, raced, crashed, ncalls,
          origin>>

\* The provider's fields set by initTinc (provider_tinc.go).
tincSubnet == DefaultTincSubnet
tincPort == DefaultTincPort

NoRet == [err |-> NoError, val |-> <<>>]
IdleCall ==
  [pc |-> "idle", op |-> "", arg |-> <<>>, key |-> "", ret |-> NoRet,
   issued |-> <<>>, wrote |-> <<>>, replaced |-> <<>>, again |-> FALSE]

\* Lines 70-86 and NewTincProvider, lines 113-129.
Init ==
  /\ configMap \in ConfigSources
  /\ LET r == loadConfig(configMap, NodeName, DefaultTincMainName) IN
       /\ constructErr = r.err
       /\ config = r.config
  /\ pods = <<>>
  /\ privateAddress = DefaultTincMainPrivateAddress
  /\ tincMainName = DefaultTincMainName
  /\ tincPeerName = DefaultTincRemotePeers
  /\ tincStartupConfigHost = ""
  /\ tincMainConfigHost = ""
  /\ tincUpScriptHost = ""
  /\ dirs = {}
  /\ files = <<>>
  /\ running = <<>>
  /\ call = [t \in Threads |-> IdleCall]
  /\ raced = [t \in Threads |-> FALSE]
  /\ crashed = FALSE
  /\ ncalls = 0
  /\ origin = <<>>

(***************************************************************************)
(* Accesses to the pods map.  The code takes no lock: a caller that has    *)
(* started a map access is at one of these positions until it completes.   *)
(***************************************************************************)
Writers == {"create_put", "update_put", "delete_del"}
Readers == {"delete_check", "get_read", "status_read", "list_read"}

InStore(t) == call[t].pc \in Writers \cup Readers

Conflicts(t, newpc) ==
  {u \in Threads \ {t} :
     InStore(u) /\ (newpc \in Writers \/ call[u].pc \in Writers)}

\* t starts a map access (newpc) or leaves the map (any other newpc).
Enter(t, newpc) ==
  raced' = [u \in Threads |->
              IF u = t THEN newpc \in Writers \cup Readers /\ Conflicts(t, newpc) # {}
              ELSE raced[u] \/ (newpc \in Writers \cup Readers /\ u \in Conflicts(t, newpc))]

\* The outcomes of completing a map write: it takes effect, or, when the
\* write raced with another access, it may be lost.
WriteOutcomes(t) == IF raced[t] THEN {TRUE, FALSE} ELSE {TRUE}

\* The operations of the code on p.pods: p.pods[key] = pod (lines 195, 239),
\* _, exists := p.pods[key] (line 253), delete(p.pods, key) (line 257) and
\* the lookup of GetPod (lines 278-281).
StorePod_IfAbsent(m, key, pod) ==
  [x \in DOMAIN m \cup {key} |-> IF x \in DOMAIN m THEN m[x] ELSE pod]
StorePod_Nothing(m, key, pod) == m
StorePod_Merge(m, key, pod) ==
  [x \in DOMAIN m \cup {key} |->
     IF x # key THEN m[x]
     ELSE IF key \in DOMAIN m THEN [pod EXCEPT !.vpnmode = m[key].vpnmode] ELSE pod]
Exists_Always(m, key) == TRUE
RemovePod_Keep(m, key) == m
StorePod_Only(m, key, pod) == [x \in {key} |-> pod]
StorePod(m, key, pod) == [x \in DOMAIN m \cup {key} |-> IF x = key THEN pod ELSE m[x]]
Exists(m, key) == key \in DOMAIN m
RemovePod(m, key) == [x \in DOMAIN m \ {key} |-> m[x]]
LookupPod(m, key) ==
  IF key \in DOMAIN m THEN [err |-> NoError, val |-> <<m[key]>>]
  ELSE [err |-> ErrNotFound, val |-> <<>>]

Live(t) == ~crashed /\ constructErr = NoError
At(t, where) == Live(t) /\ call[t].pc = where

\* The call of t returns r.
Done(c, r) == [c EXCEPT !.pc = "done", !.ret = r]
Failed(e) == [err |-> e, val |-> <<>>]

(***************************************************************************)
(* The generated configuration (createStartupConfig) and the filesystem.   *)
(* A file is the sequence of its lines.                                    *)
(***************************************************************************)
\* strings.Fields on the peer lists the model uses.
Fields(s) ==
  IF s = "" THEN <<>>
  ELSE IF s = "peerA peerB" THEN <<"peerA", "peerB">>
  ELSE <<s>>

Join(dir, file) == dir \o "/" \o file
HostDir(main) == Join("/tmp", main)

NodeTriple(node, address) ==
  << "add " \o node \o ".Address = " \o address,
     "add " \o node \o ".Subnet = " \o tincSubnet,
     "add " \o node \o ".Port = " \o ToString(tincPort) >>

RECURSIVE PeerTriples(_)
PeerTriples(nodePeers) ==
  IF nodePeers = <<>> THEN <<>>
  ELSE NodeTriple(Head(nodePeers), peerAddress) \o PeerTriples(Tail(nodePeers))

\* Lines 459-470 and 476-482.
StartupData(cfg, main, peer) ==
  << "add AutoConnect = " \o cfg.AutoConnect,
     "add ConnectTo = " \o peer,
     "add Device = " \o cfg.Device,
     "add DeviceType = " \o cfg.DeviceType,
     "add Mode = " \o cfg.Mode,
     "add Name = " \o main >>
  \o NodeTriple(cfg.Name, myAddress)
  \o PeerTriples(Fields(DefaultTincRemotePeers))

\* Line 493 reads p.config.ExperimentalProtocol, a field that the TincConfig
\* of lines 99-110 does not declare and that no code sets.
ExperimentalProtocol(cfg) == ""

\* Lines 489-495.
MainData(cfg, main, peer) ==
  << "AutoConnect = " \o cfg.AutoConnect,
     "ConnectTo = " \o peer,
     "Device = " \o cfg.Device,
     "DeviceType = " \o cfg.DeviceType,
     "ExperimentalProtocol = " \o ExperimentalProtocol(cfg),
     "Mode = " \o cfg.Mode,
     "Name = " \o main >>

\* Lines 503-505.
UpScriptData(private) ==
  << "#!/bin/bash",
     "ip link set tap0 up",
     "ip addr add " \o private \o "/24 dev tap0" >>

ArtifactNames == {"vk-startup-config.conf", "vk-main.conf", "vk-tinc-up"}

\* ioutil.WriteFile can succeed only in a directory that exists.
Writable(ds, path) == \E d \in ds : \E f \in ArtifactNames : path = Join(d, f)

\* The outcomes of a WriteFile: TRUE (written) or FALSE (an error).
FileOutcomes(ds, path) == IF Writable(ds, path) THEN {TRUE, FALSE} ELSE {FALSE}


MapPut(m, k, v) == [x \in DOMAIN m \cup {k} |-> IF x = k THEN v ELSE m[x]]
MapDelete(m, k) == [x \in DOMAIN m \ {k} |-> m[x]]

WriteFile(fs, path, data, ok) == IF ok THEN MapPut(fs, path, data) ELSE fs

Volume(hostPath, containerPath) == hostPath \o ":" \o containerPath

(***************************************************************************)
(* The docker daemon, as the two commands the provider issues see it.      *)
(***************************************************************************)
DockerRm_Noop(r, name, ok) == r
\* docker rm --force name: the container is gone afterwards (it is no error
\* that there was none), unless the command itself fails.
DockerRm(r, name, ok) == IF ok THEN MapDelete(r, name) ELSE r

\* docker run --name=name: fails when a container of that name exists.
RunOutcomes(r, name) == IF name \in DOMAIN r THEN {FALSE} ELSE {TRUE, FALSE}
DockerRun(r, name, mounts, ok) == IF ok THEN MapPut(r, name, mounts) ELSE r

(***************************************************************************)
(* What a successful CreatePod of a pod leaves behind, by the mesh role of *)
(* the pod.                                                                *)
(***************************************************************************)
\* The mesh role of a pod is its vpnmode annotation: peer or (anything else)
\* main.  The three files of a role under a configuration: path and content.
RoleArtifacts(cfg, role) ==
  LET main == IF role = "peer" THEN "nodepeer" ELSE "nodemain"
      peer == IF role = "peer" THEN "nodemain" ELSE "nodepeer"
      private == IF role = "peer" THEN "10.1.1.2" ELSE "10.1.1.1"
      dir == "/tmp/" \o main
  IN << [path |-> dir \o "/vk-startup-config.conf", data |-> StartupData(cfg, main, peer)],
        [path |-> dir \o "/vk-main.conf", data |-> MainData(cfg, main, peer)],
        [path |-> dir \o "/vk-tinc-up", data |-> UpScriptData(private)] >>

\* The container name of a mesh role and the volumes of its container.
RoleContainer(role) == IF role = "peer" THEN "nodepeer" ELSE "nodemain"
RoleMounts(cfg, role) ==
  << RoleArtifacts(cfg, role)[1].path \o ":/environment/default.startup.conf",
     RoleArtifacts(cfg, role)[2].path \o ":/service/tinc/data/tinc.conf",
     RoleArtifacts(cfg, role)[3].path \o ":/service/tinc/data/tinc-up" >>

\* The store, the files and the containers are as a successful CreatePod of
\* pod leaves them.
Provisioned(pod) ==
  LET k == buildKey(pod).key
      role == pod.vpnmode
  IN /\ k \in DOMAIN pods /\ pods[k] = pod
     /\ \A i \in 1..3 :
          LET a == RoleArtifacts(config, role)[i]
          IN a.path \in DOMAIN files /\ files[a.path] = a.data
     /\ RoleContainer(role) \in DOMAIN running
     /\ running[RoleContainer(role)] = RoleMounts(config, role)

(***************************************************************************)
(* CreatePod, lines 187-228.                                               *)
(***************************************************************************)
\* Lines 190-195: buildKey; then the caller starts the write p.pods[key] = pod.
CreatePodBegin(t, pod) ==
  /\ At(t, "idle")
  /\ LET k == buildKey(pod)
         c == [IdleCall EXCEPT !.op = "CreatePod", !.arg = <<pod>>, !.key = k.key]
     IN IF k.err # NoError
        THEN /\ call' = [call EXCEPT ![t] = Done(c, Failed(k.err))]
             /\ Enter(t, "done")
        ELSE /\ call' = [call EXCEPT ![t] =
                         [c EXCEPT !.pc = "create_put", !.again = Provisioned(pod)]]
             /\ Enter(t, "create_put")
  /\ ncalls' = IF ncalls < MaxCalls THEN ncalls + 1 ELSE ncalls
  /\ UNCHANGED <<configMap, constructErr, config, pods, origin, globals, host, crashed>>

\* Line 195: the write completes.
CreatePodPut(t) ==
  /\ At(t, "create_put")
  /\ \E applied \in WriteOutcomes(t) :
       /\ pods' = IF applied THEN StorePod(pods, call[t].key, call[t].arg[1]) ELSE pods
       /\ origin' = IF applied THEN MapPut(origin, call[t].key, call[t].op) ELSE origin
  /\ call' = [call EXCEPT ![t].pc = "create_identity"]
  /\ Enter(t, "create_identity")
  /\ UNCHANGED <<configMap, constructErr, config, globals, host, crashed, ncalls>>

CreatePodIdentity_Sticky(t) ==
  /\ At(t, "create_identity")
  /\ IF call[t].arg[1].vpnmode = "peer"
     THEN /\ privateAddress' = DefaultTincPeerPrivateAddress
          /\ tincMainName' = DefaultTincRemotePeers
          /\ tincPeerName' = DefaultTincMainName
     ELSE UNCHANGED <<privateAddress, tincMainName, tincPeerName>>
  /\ call' = [call EXCEPT ![t].pc = "create_paths"]
  /\ UNCHANGED <<configMap, constructErr, config, pods, origin, tincStartupConfigHost,
                 tincMainConfigHost, tincUpScriptHost, host, raced, crashed, ncalls>>

\* Lines 197-205: the mesh identity is stored in the package variables.
CreatePodIdentity(t) ==
  /\ At(t, "create_identity")
  /\ IF call[t].arg[1].vpnmode = "peer"
     THEN /\ privateAddress' = DefaultTincPeerPrivateAddress
          /\ tincMainName' = DefaultTincRemotePeers
          /\ tincPeerName' = DefaultTincMainName
     ELSE /\ privateAddress' = DefaultTincMainPrivateAddress
          /\ tincMainName' = DefaultTincMainName
          /\ tincPeerName' = DefaultTincRemotePeers
  /\ call' = [call EXCEPT ![t].pc = "create_paths"]
  /\ UNCHANGED <<configMap, constructErr, config, pods, origin, tincStartupConfigHost,
                 tincMainConfigHost, tincUpScriptHost, host, raced, crashed, ncalls>>

\* Lines 207-209.
CreatePodPaths(t) ==
  /\ At(t, "create_paths")
  /\ tincStartupConfigHost' = Join(HostDir(tincMainName), "vk-startup-config.conf")
  /\ tincMainConfigHost' = Join(HostDir(tincMainName), "vk-main.conf")
  /\ tincUpScriptHost' = Join(HostDir(tincMainName), "vk-tinc-up")
  /\ call' = [call EXCEPT ![t].pc = "write_startup"]
  /\ UNCHANGED <<configMap, constructErr, config, pods, origin, privateAddress, tincMainName,
                 tincPeerName, host, raced, crashed, ncalls>>

\* createStartupConfig, lines 459-486: the startup directives.
WriteStartupConfig(t) ==
  /\ At(t, "write_startup")
  /\ LET data == StartupData(config, tincMainName, tincPeerName)
         path == tincStartupConfigHost
     IN \E mk \in BOOLEAN :
          IF ~mk
          THEN /\ call' = [call EXCEPT ![t] = Done(@, Failed(ErrFilesystem))]
               /\ UNCHANGED <<dirs, files>>
          ELSE /\ dirs' = dirs \cup {HostDir(tincMainName)}
               /\ \E ok \in FileOutcomes(dirs', path) :
                    /\ files' = WriteFile(files, path, data, ok)
                    /\ call' = [call EXCEPT ![t] =
                         IF ok
                         THEN [@ EXCEPT !.pc = "write_main",
                                 !.wrote = Append(@, [path |-> path, data |-> data])]
                         ELSE Done(@, Failed(ErrFilesystem))]
  /\ UNCHANGED <<configMap, constructErr, config, pods, origin, globals, running, raced, crashed, ncalls>>

WriteMainConfig_Continue(t) ==
  /\ At(t, "write_main")
  /\ LET data == MainData(config, tincMainName, tincPeerName)
         path == tincMainConfigHost
     IN \E ok \in FileOutcomes(dirs, path) :
          /\ files' = WriteFile(files, path, data, ok)
          /\ call' = [call EXCEPT ![t] =
               IF ok
               THEN [@ EXCEPT !.pc = "write_up",
                       !.wrote = Append(@, [path |-> path, data |-> data])]
               ELSE [@ EXCEPT !.pc = "write_up"]]
  /\ UNCHANGED <<configMap, constructErr, config, pods, origin, globals, dirs, running, raced, crashed, ncalls>>

\* createStartupConfig, lines 488-499: the daemon configuration.
WriteMainConfig(t) ==
  /\ At(t, "write_main")
  /\ LET data == MainData(config, tincMainName, tincPeerName)
         path == tincMainConfigHost
     IN \E ok \in FileOutcomes(dirs, path) :
          /\ files' = WriteFile(files, path, data, ok)
          /\ call' = [call EXCEPT ![t] =
               IF ok
               THEN [@ EXCEPT !.pc = "write_up",
                       !.wrote = Append(@, [path |-> path, data |-> data])]
               ELSE Done(@, Failed(ErrFilesystem))]
  /\ UNCHANGED <<configMap, constructErr, config, pods, origin, globals, dirs, running, raced, crashed, ncalls>>

\* createStartupConfig, lines 501-511: the post-up script.
WriteUpScript(t) ==
  /\ At(t, "write_up")
  /\ LET data == UpScriptData(privateAddress)
         path == tincUpScriptHost
     IN \E ok \in FileOutcomes(dirs, path) :
          /\ files' = WriteFile(files, path, data, ok)
          /\ call' = [call EXCEPT ![t] =
               IF ok
               THEN [@ EXCEPT !.pc = "create_rm",
                       !.wrote = Append(@, [path |-> path, data |-> data])]
               ELSE Done(@, Failed(ErrFilesystem))]
  /\ UNCHANGED <<configMap, constructErr, config, pods, origin, globals, dirs, running, raced, crashed, ncalls>>

\* The container CreatePod removes and runs (lines 215, 217) and the one
\* DeletePod removes (line 261).
CreateContainerName == tincMainName
DeleteContainerName == config.Name

CreatePodRm_Checked(t) ==
  /\ At(t, "create_rm")
  /\ \E ok \in BOOLEAN :
       /\ running' = DockerRm(running, CreateContainerName, ok)
       /\ call' = [call EXCEPT ![t] =
            LET c == [@ EXCEPT !.issued = Append(@, [cmd |-> "rm", name |-> CreateContainerName,
                                                     mounts |-> <<>>, ok |-> ok])]
            IN IF ok THEN [c EXCEPT !.pc = "create_run"] ELSE Done(c, Failed(ErrDockerRm))]
  /\ UNCHANGED <<configMap, constructErr, config, pods, origin, globals, dirs, files, raced, crashed, ncalls>>

\* Line 215: docker rm --force tincMainName; output and error are dropped.
CreatePodRm(t) ==
  /\ At(t, "create_rm")
  /\ \E ok \in BOOLEAN :
       /\ running' = DockerRm(running, CreateContainerName, ok)
       /\ call' = [call EXCEPT ![t].pc = "create_run",
                     ![t].issued = Append(@, [cmd |-> "rm", name |-> CreateContainerName,
                                              mounts |-> <<>>, ok |-> ok])]
  /\ UNCHANGED <<configMap, constructErr, config, pods, origin, globals, dirs, files, raced, crashed, ncalls>>

\* Lines 217-227: docker run --name=tincMainName with the three volumes.
CreatePodRun(t) ==
  /\ At(t, "create_run")
  /\ LET mounts == << Volume(tincStartupConfigHost, tincStartupConfigContainer),
                      Volume(tincMainConfigHost, tincMainConfigContainer),
                      Volume(tincUpScriptHost, tincUpScriptContainer) >>
     IN \E ok \in RunOutcomes(running, CreateContainerName) :
          /\ running' = DockerRun(running, CreateContainerName, mounts, ok)
          /\ call' = [call EXCEPT ![t] =
               Done([@ EXCEPT !.issued = Append(@, [cmd |-> "run", name |-> CreateContainerName,
                                                    mounts |-> mounts, ok |-> ok])],
                    IF ok THEN NoRet ELSE Failed(ErrDockerRun))]
  /\ UNCHANGED <<configMap, constructErr, config, pods, origin, globals, dirs, files, raced, crashed, ncalls>>

(***************************************************************************)
(* UpdatePod, lines 231-242.                                               *)
(***************************************************************************)
UpdatePodBegin(t, pod) ==
  /\ At(t, "idle")
  /\ LET k == buildKey(pod)
         c == [IdleCall EXCEPT !.op = "UpdatePod", !.arg = <<pod>>, !.key = k.key]
     IN IF k.err # NoError
        THEN /\ call' = [call EXCEPT ![t] = Done(c, Failed(k.err))]
             /\ Enter(t, "done")
        ELSE /\ call' = [call EXCEPT ![t] = [c EXCEPT !.pc = "update_put"]]
             /\ Enter(t, "update_put")
  /\ ncalls' = IF ncalls < MaxCalls THEN ncalls + 1 ELSE ncalls
  /\ UNCHANGED <<configMap, constructErr, config, pods, origin, globals, host, crashed>>

UpdatePodPut_Reconfigure(t) ==
  /\ At(t, "update_put")
  /\ \E applied \in WriteOutcomes(t) :
       /\ pods' = IF applied THEN StorePod(pods, call[t].key, call[t].arg[1]) ELSE pods
       /\ origin' = IF applied THEN MapPut(origin, call[t].key, call[t].op) ELSE origin
  /\ call' = [call EXCEPT ![t].pc = "create_identity"]
  /\ Enter(t, "create_identity")
  /\ UNCHANGED <<configMap, constructErr, config, globals, host, crashed, ncalls>>

\* Line 239.
UpdatePodPut(t) ==
  /\ At(t, "update_put")
  /\ \E applied \in WriteOutcomes(t) :
       /\ pods' = IF applied THEN StorePod(pods, call[t].key, call[t].arg[1]) ELSE pods
       /\ origin' = IF applied THEN MapPut(origin, call[t].key, call[t].op) ELSE origin
  /\ call' = [call EXCEPT ![t] =
       Done([@ EXCEPT !.replaced = IF call[t].key \in DOMAIN pods
                                   THEN <<pods[call[t].key]>> ELSE <<>>],
            NoRet)]
  /\ Enter(t, "done")
  /\ UNCHANGED <<configMap, constructErr, config, globals, host, crashed, ncalls>>

(***************************************************************************)
(* DeletePod, lines 245-267.                                               *)
(***************************************************************************)
\* Lines 248-253: buildKey; then the caller starts the lookup p.pods[key].
DeletePodBegin(t, pod) ==
  /\ At(t, "idle")
  /\ LET k == buildKey(pod)
         c == [IdleCall EXCEPT !.op = "DeletePod", !.arg = <<pod>>, !.key = k.key]
     IN IF k.err # NoError
        THEN /\ call' = [call EXCEPT ![t] = Done(c, Failed(k.err))]
             /\ Enter(t, "done")
        ELSE /\ call' = [call EXCEPT ![t] = [c EXCEPT !.pc = "delete_check"]]
             /\ Enter(t, "delete_check")
  /\ ncalls' = IF ncalls < MaxCalls THEN ncalls + 1 ELSE ncalls
  /\ UNCHANGED <<configMap, constructErr, config, pods, origin, globals, host, crashed>>

\* Lines 253-257: the lookup completes; a known key starts delete(p.pods, key).
DeletePodCheck(t) ==
  /\ At(t, "delete_check")
  /\ IF ~Exists(pods, call[t].key)
     THEN /\ call' = [call EXCEPT ![t] = Done(@, Failed(ErrNotFound))]
          /\ Enter(t, "done")
     ELSE /\ call' = [call EXCEPT ![t].pc = "delete_del"]
          /\ Enter(t, "delete_del")
  /\ UNCHANGED <<configMap, constructErr, config, pods, origin, globals, host, crashed, ncalls>>

\* Line 257: the removal completes.
DeletePodDel(t) ==
  /\ At(t, "delete_del")
  /\ \E applied \in WriteOutcomes(t) :
       /\ pods' = IF applied THEN RemovePod(pods, call[t].key) ELSE pods
       /\ origin' = IF applied THEN MapDelete(origin, call[t].key) ELSE origin
  /\ call' = [call EXCEPT ![t].pc = "delete_rm"]
  /\ Enter(t, "delete_rm")
  /\ UNCHANGED <<configMap, constructErr, config, globals, host, crashed, ncalls>>

\* Lines 261-266: docker rm --force p.config.Name.
DeletePodRm(t) ==
  /\ At(t, "delete_rm")
  /\ \E ok \in BOOLEAN :
       /\ running' = DockerRm(running, DeleteContainerName, ok)
       /\ call' = [call EXCEPT ![t] =
            Done([@ EXCEPT !.issued = Append(@, [cmd |-> "rm", name |-> DeleteContainerName,
                                                 mounts |-> <<>>, ok |-> ok])],
                 IF ok THEN NoRet ELSE Failed(ErrDockerRm))]
  /\ UNCHANGED <<configMap, constructErr, config, pods, origin, globals, dirs, files, raced, crashed, ncalls>>

(***************************************************************************)
(* GetPod (lines 270-282), GetPodStatus (304-350), GetPods (353-363).      *)
(***************************************************************************)
\* Lines 273-276: buildKeyFromNames; then the caller starts the lookup.
GetPodBegin(t, namespace, name) ==
  /\ At(t, "idle")
  /\ LET k == buildKeyFromNames(namespace, name)
         c == [IdleCall EXCEPT !.op = "GetPod", !.arg = <<namespace, name>>,
                               !.key = k.key]
     IN IF k.err # NoError
        THEN /\ call' = [call EXCEPT ![t] = Done(c, Failed(k.err))]
             /\ Enter(t, "done")
        ELSE /\ call' = [call EXCEPT ![t] = [c EXCEPT !.pc = "get_read"]]
             /\ Enter(t, "get_read")
  /\ ncalls' = IF ncalls < MaxCalls THEN ncalls + 1 ELSE ncalls
  /\ UNCHANGED <<configMap, constructErr, config, pods, origin, globals, host, crashed>>

\* Lines 278-281.
GetPodRead(t) ==
  /\ At(t, "get_read")
  /\ call' = [call EXCEPT ![t] = Done(@, LookupPod(pods, call[t].key))]
  /\ Enter(t, "done")
  /\ UNCHANGED <<configMap, constructErr, config, pods, origin, globals, host, crashed, ncalls>>

ContainerStatuses_First(containers) ==
  IF containers = <<>> THEN <<>>
  ELSE << [Name |-> Head(containers).Name, Image |-> Head(containers).Image,
           Ready |-> TRUE, RestartCount |-> 0, State |-> "Running"] >>

\* Lines 335-347: one status per container of the pod.
RECURSIVE ContainerStatuses(_)
ContainerStatuses(containers) ==
  IF containers = <<>> THEN <<>>
  ELSE << [Name |-> Head(containers).Name, Image |-> Head(containers).Image,
           Ready |-> TRUE, RestartCount |-> 0, State |-> "Running"] >>
       \o ContainerStatuses(Tail(containers))

\* Lines 309-328 and 335-349.
PodStatus(pod) ==
  [Phase |-> "Running", HostIP |-> "1.2.3.4", PodIP |-> "5.6.7.8",
   Conditions |-> <<"Initialized", "Ready", "PodScheduled">>,
   ContainerStatuses |-> ContainerStatuses(pod.Containers)]

\* Line 330: GetPod, whose lookup the caller starts.
GetPodStatusBegin(t, namespace, name) ==
  /\ At(t, "idle")
  /\ LET k == buildKeyFromNames(namespace, name)
         c == [IdleCall EXCEPT !.op = "GetPodStatus", !.arg = <<namespace, name>>,
                               !.key = k.key]
     IN IF k.err # NoError
        THEN /\ call' = [call EXCEPT ![t] = Done(c, Failed(k.err))]
             /\ Enter(t, "done")
        ELSE /\ call' = [call EXCEPT ![t] = [c EXCEPT !.pc = "status_read"]]
             /\ Enter(t, "status_read")
  /\ ncalls' = IF ncalls < MaxCalls THEN ncalls + 1 ELSE ncalls
  /\ UNCHANGED <<configMap, constructErr, config, pods, origin, globals, host, crashed>>

\* Lines 330-349.
GetPodStatusRead(t) ==
  /\ At(t, "status_read")
  /\ call' = [call EXCEPT ![t] =
       LET got == LookupPod(pods, call[t].key)
       IN Done(@, IF got.err # NoError THEN got
                  ELSE [err |-> NoError, val |-> <<PodStatus(got.val[1])>>])]
  /\ Enter(t, "done")
  /\ UNCHANGED <<configMap, constructErr, config, pods, origin, globals, host, crashed, ncalls>>

\* Line 358: the caller starts ranging over p.pods.
GetPodsBegin(t) ==
  /\ At(t, "idle")
  /\ call' = [call EXCEPT ![t] = [IdleCall EXCEPT !.op = "GetPods", !.pc = "list_read"]]
  /\ Enter(t, "list_read")
  /\ ncalls' = IF ncalls < MaxCalls THEN ncalls + 1 ELSE ncalls
  /\ UNCHANGED <<configMap, constructErr, config, pods, origin, globals, host, crashed>>

Orders_Any(m) == [1..Cardinality(DOMAIN m) -> DOMAIN m]
\* The orders in which a range over the map m can visit its keys.
Orders(m) ==
  {o \in [1..Cardinality(DOMAIN m) -> DOMAIN m] :
     \A i, j \in DOMAIN o : i # j => o[i] # o[j]}

\* Lines 356-362.
GetPodsRead(t) ==
  /\ At(t, "list_read")
  /\ \E o \in Orders(pods) :
       call' = [call EXCEPT ![t] =
         Done(@, [err |-> NoError, val |-> [i \in DOMAIN o |-> pods[o[i]]]])]
  /\ Enter(t, "done")
  /\ UNCHANGED <<configMap, constructErr, config, pods, origin, globals, host, crashed, ncalls>>

(***************************************************************************)
(* Capacity, lines 367-373.                                                *)
(***************************************************************************)
ResourceList_Defaults(cfg) ==
  [cpu |-> defaultCPUCapacity, memory |-> defaultMemoryCapacity,
   pods |-> defaultPodCapacity]
ResourceList(cfg) == [cpu |-> cfg.CPU, memory |-> cfg.Memory, pods |-> cfg.Pods]

\* resource.MustParse panics on a string that is no quantity.
MustParseAll(cfg) ==
  ParseQuantityOk(cfg.CPU) /\ ParseQuantityOk(cfg.Memory) /\ ParseQuantityOk(cfg.Pods)

CapacityCall(t) ==
  /\ At(t, "idle")
  /\ IF MustParseAll(config)
     THEN /\ call' = [call EXCEPT ![t] =
                 Done([IdleCall EXCEPT !.op = "Capacity"],
                      [err |-> NoError, val |-> <<ResourceList(config)>>])]
          /\ UNCHANGED crashed
     ELSE /\ crashed' = TRUE
          /\ UNCHANGED call
  /\ ncalls' = IF ncalls < MaxCalls THEN ncalls + 1 ELSE ncalls
  /\ UNCHANGED <<configMap, constructErr, config, pods, origin, globals, host, raced>>

(***************************************************************************)
(* The node descriptor calls, lines 377-448: each returns a value built    *)
(* from constants and the provider's construction parameters.              *)
(***************************************************************************)
\* cfg.InternalIP, which initTinc passes as tincAddress.
tincAddress == "192.0.2.10"

NodeConditions ==
  << [Type |-> "Ready", Status |-> "True"],
     [Type |-> "OutOfDisk", Status |-> "False"],
     [Type |-> "MemoryPressure", Status |-> "False"],
     [Type |-> "DiskPressure", Status |-> "False"],
     [Type |-> "NetworkUnavailable", Status |-> "False"] >>
NodeAddresses == << [Type |-> "InternalIP", Address |-> tincAddress] >>
NodeDaemonEndpoints == [KubeletEndpoint |-> [Port |-> tincPort]]
OperatingSystem == "Linux"

NodeDescriptors ==
  [NodeConditions |-> NodeConditions, NodeAddresses |-> NodeAddresses,
   NodeDaemonEndpoints |-> NodeDaemonEndpoints, OperatingSystem |-> OperatingSystem]

NodeDescriptorCall(t) ==
  /\ At(t, "idle")
  /\ \E o \in DOMAIN NodeDescriptors :
       call' = [call EXCEPT ![t] =
         Done([IdleCall EXCEPT !.op = o], [err |-> NoError, val |-> <<NodeDescriptors[o]>>])]
  /\ ncalls' = IF ncalls < MaxCalls THEN ncalls + 1 ELSE ncalls
  /\ UNCHANGED <<configMap, constructErr, config, pods, origin, globals, host, raced, crashed>>

(***************************************************************************)
(* The caller takes the result and is free to make its next call.          *)
(***************************************************************************)
Return(t) ==
  /\ At(t, "done")
  /\ call' = [call EXCEPT ![t] = IdleCall]
  /\ UNCHANGED <<configMap, constructErr, config, pods, origin, globals, host, raced, crashed, ncalls>>

\* Unsynchronised conflicting accesses to a Go map: the runtime may end the
\* process ("fatal error: concurrent map read and map write").
Crash(t) ==
  /\ Live(t)
  /\ InStore(t)
  /\ raced[t]
  /\ crashed' = TRUE
  /\ UNCHANGED <<configMap, constructErr, config, pods, origin, globals, host, call, raced, ncalls>>

(***************************************************************************)
(* Specifications.  Spec: the callers' calls interleave freely.  SeqSpec:  *)
(* one call at a time, each call running to its return before the next.    *)
(***************************************************************************)
\* A caller makes a call.
Begin(t) ==
  \/ \E pod \in PodSet : CreatePodBegin(t, pod)
  \/ \E pod \in PodSet : UpdatePodBegin(t, pod)
  \/ \E pod \in PodSet : DeletePodBegin(t, pod)
  \/ \E ns \in Namespaces, n \in PodNames : GetPodBegin(t, ns, n)
  \/ \E ns \in Namespaces, n \in PodNames : GetPodStatusBegin(t, ns, n)
  \/ GetPodsBegin(t)
  \/ CapacityCall(t)
  \/ NodeDescriptorCall(t)

\* A call in progress takes its next step, or its caller takes the result.
Continue(t) ==
  \/ CreatePodPut(t)
  \/ CreatePodIdentity(t)
  \/ CreatePodPaths(t)
  \/ WriteStartupConfig(t)
  \/ WriteMainConfig(t)
  \/ WriteUpScript(t)
  \/ CreatePodRm(t)
  \/ CreatePodRun(t)
  \/ UpdatePodPut(t)
  \/ DeletePodCheck(t)
  \/ DeletePodDel(t)
  \/ DeletePodRm(t)
  \/ GetPodRead(t)
  \/ GetPodStatusRead(t)
  \/ GetPodsRead(t)
  \/ Return(t)

\* Spec explores the interleavings of the first MaxCalls calls.
BoundedBegin(t) == ncalls < MaxCalls /\ Begin(t)

\* The caller of the sequential runs.
Caller == CHOOSE t \in Threads : TRUE

Next == \E t \in Threads : BoundedBegin(t) \/ Continue(t) \/ Crash(t)

SeqNext == Begin(Caller) \/ Continue(Caller)

Spec == Init /\ [][Next]_vars

SeqSpec == Init /\ [][SeqNext]_vars

(***************************************************************************)
(* Properties.                                                             *)
(***************************************************************************)
Finished(t, o) == call[t].pc = "done" /\ call[t].op = o
NamesOf(pod) == <<pod.Namespace, pod.Name>>
ValidNames(a) == a[1] # "" /\ a[2] # ""
InvalidKeyErrors == {ErrNamespace, ErrName}

\* A step changes or removes the pod stored under k.
Changed(k) == k \notin DOMAIN pods' \/ pods'[k] # pods[k]

\* The step is the store write of a call of one of the operations ops on key k.
WriteBy(ops, k) ==
  \E t \in Threads :
    /\ call[t].pc \in Writers
    /\ call'[t] # call[t]
    /\ call[t].op \in ops
    /\ call[t].key = k

\* When CreatePod(r) has returned (with or without an error after the store
\* write), the store holds r under r's key.
CreateStored ==
  \A t \in Threads :
    Finished(t, "CreatePod") /\ call[t].ret.err \notin InvalidKeyErrors =>
      /\ call[t].key \in DOMAIN pods
      /\ pods[call[t].key] = call[t].arg[1]

\* GetPod with the namespace and name of a pod that CreatePod stored returns
\* exactly that pod.
GetReturnsCreated ==
  \A t \in Threads : \A k \in DOMAIN pods :
    /\ Finished(t, "GetPod")
    /\ k \in DOMAIN origin /\ origin[k] = "CreatePod"
    /\ call[t].arg = NamesOf(pods[k])
    => call[t].ret = [err |-> NoError, val |-> <<pods[k]>>]

\* A pod that CreatePod stored stays until a call of one of ops on its key.
CreatedStaysUntil(ops) ==
  \A k \in DOMAIN pods :
    k \in DOMAIN origin /\ origin[k] = "CreatePod" /\ Changed(k) => WriteBy(ops, k)

\* C1 (as amended): after CreatePod(r) with a non-empty namespace and name,
\* GetPod(r.namespace, r.name) returns exactly r, and keeps returning r until
\* a CreatePod, UpdatePod or DeletePod is issued for a record with the same key.
C1_ReadYourWrite ==
  /\ [](CreateStored /\ GetReturnsCreated)
  /\ [][CreatedStaysUntil({"CreatePod", "UpdatePod", "DeletePod"})]_vars

\* C1 (as stated): ... and keeps returning r until an UpdatePod or DeletePod
\* is issued for a record with the same key.
C1_Original ==
  /\ [](CreateStored /\ GetReturnsCreated)
  /\ [][CreatedStaysUntil({"UpdatePod", "DeletePod"})]_vars

\* C1 witness: a GetPod has returned the pod that a CreatePod stored.
C1_Witness ==
  \E t \in Threads :
    /\ Finished(t, "GetPod")
    /\ call[t].ret.err = NoError
    /\ call[t].key \in DOMAIN origin /\ origin[call[t].key] = "CreatePod"
    /\ call[t].arg = NamesOf(call[t].ret.val[1])

\* The step is a step of the call of t.
StepOf(t) == call'[t] # call[t]

\* A DeletePod whose key is in the store goes on to remove it.
DeleteKnownProceeds ==
  \A t \in Threads :
    call[t].pc = "delete_check" /\ call[t].key \in DOMAIN pods /\ StepOf(t)
      => call'[t].pc = "delete_del"

\* Once the removal is done the key is absent, before and after the docker
\* command; the result of the call is the result of that command.
DeleteRemoved ==
  \A t \in Threads :
    /\ call[t].pc = "delete_rm" => call[t].key \notin DOMAIN pods
    /\ Finished(t, "DeletePod") /\ call[t].issued # <<>> =>
         /\ call[t].key \notin DOMAIN pods
         /\ call[t].ret.err = IF call[t].issued[1].ok THEN NoError ELSE ErrDockerRm

\* GetPod of a key that is not in the store fails NotFound.
GetAbsentFails ==
  \A t \in Threads :
    Finished(t, "GetPod") /\ call[t].key \notin DOMAIN pods
      => call[t].ret = [err |-> ErrNotFound, val |-> <<>>]

\* C2: after DeletePod(r) on a record whose key is in the store, the key is
\* absent from the store and a following GetPod fails NotFound, whether the
\* docker removal succeeds or fails; when it fails the call returns an error
\* but the record has already been removed.
C2_DeleteRemovesFirst ==
  /\ [](DeleteRemoved /\ GetAbsentFails)
  /\ [][DeleteKnownProceeds]_vars

\* C2 witness: a DeletePod has returned the error of a failed docker rm, and
\* its key is gone from the store.
C2_Witness ==
  \E t \in Threads :
    /\ Finished(t, "DeletePod")
    /\ call[t].ret.err = ErrDockerRm
    /\ call[t].key \notin DOMAIN pods

\* A DeletePod whose key is not in the store ends at the lookup: it returns
\* NotFound, having changed neither the store nor anything on the host, and
\* having issued no docker command.
DeleteUnknownEnds ==
  \A t \in Threads :
    call[t].pc = "delete_check" /\ call[t].key \notin DOMAIN pods /\ StepOf(t) =>
      /\ call'[t].pc = "done"
      /\ call'[t].ret = [err |-> ErrNotFound, val |-> <<>>]
      /\ call'[t].issued = <<>>
      /\ UNCHANGED <<pods, host, globals>>

\* The steps of DeletePod before the removal change nothing but the call.
DeleteLookupFrame ==
  \A t \in Threads :
    StepOf(t) /\ call'[t].op = "DeletePod" /\ call'[t].pc \in {"delete_check", "done"}
      /\ call[t].pc \in {"idle", "delete_check"}
      => UNCHANGED <<pods, host, globals>>

\* C3: DeletePod for a record whose key is not in the store fails with
\* NotFound, leaves the store exactly as it was, and issues no docker command.
C3_DeleteUnknown == [][DeleteUnknownEnds /\ DeleteLookupFrame]_vars

\* C3 witness: a DeletePod has returned NotFound while other pods are stored.
C3_Witness ==
  \E t \in Threads :
    /\ Finished(t, "DeletePod")
    /\ call[t].ret.err = ErrNotFound
    /\ call[t].issued = <<>>
    /\ pods # <<>>

\* A CreatePod that failed after the store write has left its pod stored.
FailedCreateStored ==
  \A t \in Threads :
    Finished(t, "CreatePod") /\ call[t].ret.err \in {ErrFilesystem, ErrDockerRun} =>
      /\ call[t].key \in DOMAIN pods
      /\ pods[call[t].key] = call[t].arg[1]

\* The permutations of the stored pods.
IsListOf(val, m) ==
  /\ Len(val) = Cardinality(DOMAIN m)
  /\ \A k \in DOMAIN m : \E i \in DOMAIN val : val[i] = m[k]

\* GetPod, GetPodStatus and GetPods report what is stored, whatever the state
\* of the files and of the docker daemon.
ReadsReportStore ==
  \A t \in Threads :
    /\ Finished(t, "GetPod") /\ call[t].key \in DOMAIN pods =>
         call[t].ret = [err |-> NoError, val |-> <<pods[call[t].key]>>]
    /\ Finished(t, "GetPodStatus") /\ call[t].key \in DOMAIN pods =>
         call[t].ret = [err |-> NoError, val |-> <<PodStatus(pods[call[t].key])>>]
    /\ Finished(t, "GetPods") =>
         call[t].ret.err = NoError /\ IsListOf(call[t].ret.val, pods)

\* C4: a CreatePod that fails after the store write (a directory or file
\* write fails, or docker run exits non-zero) returns an error and is not
\* rolled back: the record stays in the store and GetPod, GetPods and
\* GetPodStatus keep reporting it.
C4_NoRollback == FailedCreateStored /\ ReadsReportStore

\* C4 witness: GetPodStatus reports a pod stored by a CreatePod although no
\* configuration file was ever written and no container runs.
C4_Witness ==
  \E t \in Threads :
    /\ Finished(t, "GetPodStatus")
    /\ call[t].ret.err = NoError
    /\ call[t].key \in DOMAIN origin /\ origin[call[t].key] = "CreatePod"
    /\ files = <<>>
    /\ running = <<>>

\* C5 (as stated): in every execution, interleaved CreatePod calls with
\* different mesh roles included, each docker run for a container name is
\* preceded, within the same CreatePod call, by a docker rm --force for that
\* same container name.
C5_RunAfterRemove ==
  \A t \in Threads : \A i \in DOMAIN call[t].issued :
    call[t].issued[i].cmd = "run" =>
      \E j \in 1..(i - 1) :
        /\ call[t].issued[j].cmd = "rm"
        /\ call[t].issued[j].name = call[t].issued[i].name

\* C6 (as stated): DeletePod removes the container CreatePod ran: for either
\* mesh role and any configured mesh node name, after a CreatePod that started
\* the mesh container (one role only has been provisioned) and a DeletePod
\* that returns success, no mesh container started by the provider still runs.
C6_DeleteStopsContainer ==
  \A t \in Threads :
    Finished(t, "DeletePod") /\ call[t].ret.err = NoError /\ Cardinality(dirs) <= 1
      => running = <<>>

\* C7 (as stated): no state is reachable in which a store write is in progress
\* at the same time as another store write or a store read.
C7_StoreExclusive ==
  \A t, u \in Threads :
    t # u /\ call[t].pc \in Writers => ~InStore(u)

\* C8 (as stated): two non-empty (namespace, name) pairs that differ never
\* derive the same key, so a CreatePod, UpdatePod or DeletePod of one workload
\* never overwrites or removes, and a GetPod of one workload never returns,
\* the record of a different workload.
C8_KeyInjective ==
  \A t \in Threads :
    /\ call[t].pc \in Writers /\ call[t].key \in DOMAIN pods =>
         NamesOf(pods[call[t].key]) = NamesOf(call[t].arg[1])
    /\ Finished(t, "GetPod") /\ call[t].ret.err = NoError /\ ValidNames(call[t].arg) =>
         NamesOf(call[t].ret.val[1]) = call[t].arg

\* The namespace and name a call derives its key from.
ArgNames(t) ==
  IF call[t].op \in {"CreatePod", "UpdatePod", "DeletePod"}
  THEN NamesOf(call[t].arg[1]) ELSE call[t].arg

\* C9 (as stated): key derivation fails with InvalidKey whenever the namespace
\* or the name is empty, from a record (CreatePod, UpdatePod, DeletePod) and
\* from names (GetPod, GetPodStatus); the failing call issues no docker command.
C9_EmptyNameFails ==
  \A t \in Threads :
    /\ call[t].op \in {"CreatePod", "UpdatePod", "DeletePod", "GetPod", "GetPodStatus"}
    /\ ~ValidNames(ArgNames(t))
    => /\ call[t].pc = "done"
       /\ call[t].ret.err \in InvalidKeyErrors
       /\ call[t].issued = <<>>

\* The store write of UpdatePod maps the key to the new pod and leaves every
\* other key as it was.
UpdateUpserts ==
  \A t \in Threads :
    call[t].pc = "update_put" /\ StepOf(t) =>
      /\ DOMAIN pods' = DOMAIN pods \cup {call[t].key}
      /\ pods'[call[t].key] = call[t].arg[1]
      /\ \A k \in DOMAIN pods \ {call[t].key} : pods'[k] = pods[k]

UpdateStored ==
  \A t \in Threads :
    Finished(t, "UpdatePod") /\ call[t].ret.err = NoError =>
      /\ call[t].key \in DOMAIN pods
      /\ pods[call[t].key] = call[t].arg[1]

\* C10: after UpdatePod(r) with a non-empty namespace and name, the store maps
\* r's key to exactly r, whether or not the key was present before (no merge):
\* nothing of the record stored before is observable through GetPod or
\* GetPodStatus afterwards.
C10_UpdateReplaces ==
  /\ [](UpdateStored /\ ReadsReportStore)
  /\ [][UpdateUpserts]_vars

\* C10 witness: an UpdatePod has replaced a pod that had an annotation and a
\* container which the new pod has not, and the store holds the new pod.
C10_Witness ==
  \E t \in Threads :
    /\ Finished(t, "UpdatePod")
    /\ call[t].replaced # <<>>
    /\ call[t].replaced[1].vpnmode = "peer" /\ call[t].arg[1].vpnmode = ""
    /\ Len(call[t].replaced[1].Containers) > Len(call[t].arg[1].Containers)
    /\ pods[call[t].key] = call[t].arg[1]

\* Every step of an UpdatePod changes at most the pod stored under the key of
\* the call: the package variables, the files and the containers stay.
UpdateFrame ==
  \A t \in Threads :
    StepOf(t) /\ call'[t].op = "UpdatePod" =>
      /\ UNCHANGED <<globals, host>>
      /\ DOMAIN pods' \subseteq DOMAIN pods \cup {call'[t].key}
      /\ \A k \in DOMAIN pods \ {call'[t].key} : k \in DOMAIN pods' /\ pods'[k] = pods[k]

\* An UpdatePod writes no file and issues no docker command.
UpdateIssuesNothing ==
  \A t \in Threads :
    call[t].op = "UpdatePod" => call[t].issued = <<>> /\ call[t].wrote = <<>>

\* C11: UpdatePod changes only the stored record for its key: it writes no
\* configuration file, issues no docker command (neither rm nor run), and
\* leaves the process-wide mesh identity and the running mesh container as
\* they were.
C11_UpdateOnlyStore ==
  /\ []UpdateIssuesNothing
  /\ [][UpdateFrame]_vars

\* C11 witness: an UpdatePod has replaced the pod of a key while a mesh
\* container started for the peer role runs with its files in place; the new
\* pod has the other role.
C11_Witness ==
  \E t \in Threads :
    /\ Finished(t, "UpdatePod")
    /\ call[t].ret.err = NoError
    /\ call[t].replaced # <<>>
    /\ call[t].arg[1].vpnmode = ""
    /\ tincMainName = DefaultTincRemotePeers
    /\ DefaultTincRemotePeers \in DOMAIN running
    /\ Join(HostDir(DefaultTincRemotePeers), "vk-tinc-up") \in DOMAIN files

\* The result of a GetPods holds the pod of every stored key exactly once and
\* nothing else.
ListExact ==
  \A t \in Threads :
    Finished(t, "GetPods") =>
      LET val == call[t].ret.val IN
      /\ call[t].ret.err = NoError
      /\ Len(val) = Cardinality(DOMAIN pods)
      /\ \A k \in DOMAIN pods : Cardinality({i \in DOMAIN val : val[i] = pods[k]}) = 1
      /\ \A i \in DOMAIN val : \E k \in DOMAIN pods : val[i] = pods[k]

\* Before the first call the store is empty.
StoreStartsEmpty == ncalls = 0 => pods = <<>>

\* C12: after any sequence of lifecycle calls starting from the empty store,
\* GetPods returns exactly the pods currently in the store: the pod of each
\* stored key exactly once, and no pod that was deleted or never put.
C12_ListExact == ListExact /\ StoreStartsEmpty

\* C12 witness: a GetPods has returned two pods, one stored by a CreatePod and
\* one by an UpdatePod.
C12_Witness ==
  \E t \in Threads :
    /\ Finished(t, "GetPods")
    /\ Len(call[t].ret.val) = 2
    /\ \E j, k \in DOMAIN origin : origin[j] = "CreatePod" /\ origin[k] = "UpdatePod"

\* The documented default of every setting.
AllDefaults ==
  [AutoConnect |-> "yes", ConnectTo |-> "nodepeer", Device |-> "/dev/net/tun",
   DeviceType |-> "tap", Mode |-> "switch", Name |-> "nodemain",
   CPU |-> "20", Memory |-> "100Gi", Pods |-> "20"]

\* C13 (as stated): resolving the configuration for a node name that has no
\* entry in the settings source (an empty source included) succeeds and yields
\* a configuration in which every field equals its documented default, so
\* that the construction of the provider succeeds.
C13_AbsentEntryDefaults ==
  NodeName \notin DOMAIN configMap =>
    constructErr = NoError /\ config = AllDefaults

\* The capacity settings of the node's entry that are given and are no
\* resource quantity, in the order cpu, memory, pods.
BadSettings ==
  IF NodeName \notin DOMAIN configMap THEN <<>>
  ELSE LET c == configMap[NodeName]
           Bad(v, e) == IF v \notin ValidQuantities \cup {""} THEN <<e>> ELSE <<>>
       IN Bad(c.CPU, "Invalid CPU value") \o Bad(c.Memory, "Invalid memory value")
          \o Bad(c.Pods, "Invalid pods value")

\* Such a setting makes NewTincProvider fail with the error of the first one.
InvalidEntryFails ==
  BadSettings # <<>> =>
    /\ constructErr = BadSettings[1]
    /\ pods = <<>> /\ dirs = {} /\ files = <<>> /\ running = <<>>
    /\ \A t \in Threads : call[t] = IdleCall

\* Every step of a call is taken on a provider that was constructed.
StepsNeedProvider == constructErr = NoError

\* C14: if the cpu, memory or pods setting of the node's entry does not parse
\* as a resource quantity, loadConfig fails with an error naming the setting
\* and NewTincProvider fails: there is no provider on which a call could be
\* made.
C14_InvalidConfigFails ==
  /\ []InvalidEntryFails
  /\ [][StepsNeedProvider]_vars

\* C14 witness: the provider was to be constructed from an entry whose memory
\* setting is no quantity, and the construction failed on it.
C14_Witness ==
  /\ NodeName \in DOMAIN configMap
  /\ configMap[NodeName].Memory = "lots"
  /\ constructErr = "Invalid memory value"

\* The result of a GetPodStatus of a stored key: one status for each container
\* of the stored pod, in the order of the pod, ready and running, never
\* restarted.  Of a key that is not stored: NotFound.
StatusPerContainer ==
  \A t \in Threads :
    Finished(t, "GetPodStatus") =>
      IF call[t].key \in DOMAIN pods
      THEN LET cs == pods[call[t].key].Containers IN
           /\ call[t].ret.err = NoError
           /\ Len(call[t].ret.val) = 1
           /\ LET st == call[t].ret.val[1].ContainerStatuses IN
              /\ Len(st) = Len(cs)
              /\ \A i \in DOMAIN cs :
                   /\ st[i].Name = cs[i].Name
                   /\ st[i].Image = cs[i].Image
                   /\ st[i].Ready
                   /\ st[i].State = "Running"
                   /\ st[i].RestartCount = 0
      ELSE call[t].ret = [err |-> ErrNotFound, val |-> <<>>]

\* C15: GetPodStatus for a stored pod returns exactly one synthesized container
\* status per container of the stored pod, in declaration order, each ready
\* and running with zero restarts, whether or not the mesh container runs or
\* was ever provisioned; for a pod that is not in the store it fails NotFound.
C15_StatusFromRecord == StatusPerContainer

\* C15 witness: GetPodStatus has returned two container statuses for a stored
\* pod of two containers while no mesh container runs.
C15_Witness ==
  \E t \in Threads :
    /\ Finished(t, "GetPodStatus")
    /\ call[t].ret.err = NoError
    /\ Len(call[t].ret.val[1].ContainerStatuses) = 2
    /\ running = <<>>

\* What a CreatePod has written so far is what its role and the configuration
\* determine.
WritesByRole ==
  \A t \in Threads :
    call[t].op = "CreatePod" =>
      /\ Len(call[t].wrote) <= 3
      /\ \A i \in DOMAIN call[t].wrote :
           call[t].wrote[i] = RoleArtifacts(config, call[t].arg[1].vpnmode)[i]

\* Every file on the host has the content that every CreatePod of its role
\* writes under this configuration.
FilesByRole ==
  \A path \in DOMAIN files :
    \E role \in VpnModes : \E i \in 1..3 :
      RoleArtifacts(config, role)[i] = [path |-> path, data |-> files[path]]

\* C16: in any sequential run, the three files written by a CreatePod depend
\* only on the effective configuration, the addressing parameters and the mesh
\* role of that call, so that two CreatePod calls with the same role write
\* identical files whatever calls, of whatever roles, came in between.
C16_GenerationDeterministic == WritesByRole /\ FilesByRole

\* C16 witness: a CreatePod of the main role has written its three files after
\* a CreatePod of the peer role had written and started the peer's.
C16_Witness ==
  \E t \in Threads :
    /\ call[t].op = "CreatePod"
    /\ call[t].arg[1].vpnmode = ""
    /\ Len(call[t].wrote) = 3
    /\ "/tmp/nodepeer/vk-tinc-up" \in DOMAIN files
    /\ "nodepeer" \in DOMAIN running

\* The peer list of the provider: the space-separated names of the resolved
\* ConnectTo setting.
PeerList == Fields(config.ConnectTo)

\* C17 (as stated): the startup directives contain, after the six scalar
\* settings, the Address/Subnet/Port triple of the local node followed by
\* exactly one Address/Subnet/Port triple per entry of the peer list, in the
\* order of the peer list (two triples for a peer list of two names, none for
\* an empty peer list).
C17_PeerTriplesFollowList ==
  \A t \in Threads :
    call[t].op = "CreatePod" /\ call[t].wrote # <<>> =>
      LET data == call[t].wrote[1].data IN
      /\ Len(data) = 6 + 3 + 3 * Len(PeerList)
      /\ SubSeq(data, 7, 9) = NodeTriple(config.Name, myAddress)
      /\ \A i \in DOMAIN PeerList :
           SubSeq(data, 7 + 3 * i, 9 + 3 * i) = NodeTriple(PeerList[i], peerAddress)

\* Capacity returns the three capacity settings of the configuration.
CapacityFromConfig ==
  \A t \in Threads :
    Finished(t, "Capacity") =>
      call[t].ret = [err |-> NoError,
                     val |-> <<[cpu |-> config.CPU, memory |-> config.Memory,
                                pods |-> config.Pods]>>]

\* The configuration of a constructed provider is the one resolved from the
\* settings source, and its capacity settings are resource quantities, so that
\* no Capacity call has panicked.
ConstructedParses ==
  constructErr = NoError =>
    /\ config = loadConfig(configMap, NodeName, DefaultTincMainName).config
    /\ {config.CPU, config.Memory, config.Pods} \subseteq ValidQuantities
    /\ ~crashed

\* No step changes the configuration.
ConfigStays == config' = config /\ configMap' = configMap /\ constructErr' = constructErr

\* C18: Capacity returns the same cpu/memory/pods triple on every call for the
\* lifetime of a provider, equal to the values resolved at construction, and
\* never fails: every constructed provider holds capacity strings that parse
\* as resource quantities, and no lifecycle call changes the configuration.
C18_CapacityStatic ==
  /\ [](CapacityFromConfig /\ ConstructedParses)
  /\ [][ConfigStays]_vars

\* C18 witness: Capacity has returned the configured capacities, which are not
\* the defaults, after pods were stored and a mesh container was started.
C18_Witness ==
  \E t \in Threads :
    /\ Finished(t, "Capacity")
    /\ call[t].ret.val[1] = [cpu |-> "4", memory |-> "8Gi", pods |-> "110"]
    /\ pods # <<>>
    /\ running # <<>>

\* The positions of a CreatePod at which it writes its files.
WriteStages == {"write_startup", "write_main", "write_up"}

\* Within a CreatePod: the pod is in the store before anything is written;
\* the files are written in the order startup directives, daemon
\* configuration, post-up script; a docker command is issued only after all
\* three; the commands are rm, then run.
StagesInOrder ==
  \A t \in Threads :
    call[t].op = "CreatePod" =>
      /\ call[t].pc \in WriteStages \/ call[t].wrote # <<>> \/ call[t].issued # <<>> =>
           call[t].key \in DOMAIN pods /\ pods[call[t].key] = call[t].arg[1]
      /\ Len(call[t].wrote) <= 3
      /\ \A i \in DOMAIN call[t].wrote :
           call[t].wrote[i].path =
             <<tincStartupConfigHost, tincMainConfigHost, tincUpScriptHost>>[i]
      /\ call[t].issued # <<>> => Len(call[t].wrote) = 3
      /\ Len(call[t].issued) <= 2
      /\ \A i \in DOMAIN call[t].issued : call[t].issued[i].cmd = <<"rm", "run">>[i]

\* A CreatePod that returned without having written all three files returned
\* the error of the directory or the file, and issued no docker command.
FailedWriteEnds ==
  \A t \in Threads :
    Finished(t, "CreatePod") /\ call[t].ret.err \notin InvalidKeyErrors =>
      /\ Len(call[t].wrote) < 3 => call[t].ret.err = ErrFilesystem /\ call[t].issued = <<>>
      /\ call[t].ret.err = ErrFilesystem => Len(call[t].wrote) < 3 /\ call[t].issued = <<>>

\* A step at a write stage that writes no file ends the call with that error
\* and leaves the containers alone.
FailedWriteReturns ==
  \A t \in Threads :
    call[t].pc \in WriteStages /\ StepOf(t) /\ call'[t].wrote = call[t].wrote =>
      /\ call'[t].pc = "done"
      /\ call'[t].ret.err = ErrFilesystem
      /\ UNCHANGED <<running, files, pods>>

\* C19: within one CreatePod the stages happen in the order store write, then
\* file writes (startup directives, daemon configuration, post-up script),
\* then docker commands (rm, then run); if the creation of the directory or
\* any file write fails, the call returns that error and issues no docker
\* command.
C19_CreateStages ==
  /\ [](StagesInOrder /\ FailedWriteEnds)
  /\ [][FailedWriteReturns]_vars

\* C19 witness: a CreatePod has returned the error of its third file write,
\* with two files written, its pod stored and no docker command issued.
C19_Witness ==
  \E t \in Threads :
    /\ Finished(t, "CreatePod")
    /\ call[t].ret.err = ErrFilesystem
    /\ Len(call[t].wrote) = 2
    /\ call[t].issued = <<>>
    /\ call[t].key \in DOMAIN pods

\* Whatever the outcome of its docker rm, a CreatePod goes on to docker run.
RemoveThenRun ==
  \A t \in Threads :
    call[t].pc = "create_rm" /\ StepOf(t) =>
      /\ call'[t].pc = "create_run"
      /\ call'[t].ret = call[t].ret

\* The result of a CreatePod that reached the docker commands is the result
\* of its docker run, whatever the result of its docker rm.
ResultIsRunResult ==
  \A t \in Threads :
    Finished(t, "CreatePod") /\ call[t].issued # <<>> =>
      /\ Len(call[t].issued) = 2
      /\ call[t].issued[2].cmd = "run"
      /\ call[t].ret.err = IF call[t].issued[2].ok THEN NoError ELSE ErrDockerRun

\* C20: during CreatePod a failure of docker rm --force is ignored: docker run
\* is still issued, and the result of the call is determined by the file
\* writes and the docker run only, so that the call succeeds when those
\* succeed although the removal failed.
C20_RemoveFailureIgnored ==
  /\ []ResultIsRunResult
  /\ [][RemoveThenRun]_vars

\* C20 witness: a CreatePod has returned success, its container runs, and its
\* docker rm had failed.
C20_Witness ==
  \E t \in Threads :
    /\ Finished(t, "CreatePod")
    /\ call[t].ret.err = NoError
    /\ Len(call[t].issued) = 2
    /\ ~call[t].issued[1].ok
    /\ call[t].issued[2].name \in DOMAIN running

\* C21 (as stated): when CreatePod calls interleave, each call still uses the
\* mesh identity selected from the vpnmode annotation of its own pod for
\* everything it produces: the Name and ConnectTo values and the private
\* address in its files, the paths it writes and mounts, and the name of the
\* container it removes and runs.
C21_OwnIdentity ==
  \A t \in Threads :
    call[t].op = "CreatePod" =>
      LET role == call[t].arg[1].vpnmode IN
      /\ \A i \in DOMAIN call[t].wrote :
           call[t].wrote[i] = RoleArtifacts(config, role)[i]
      /\ \A i \in DOMAIN call[t].issued :
           /\ call[t].issued[i].name = RoleContainer(role)
           /\ call[t].issued[i].cmd = "run" =>
                call[t].issued[i].mounts = RoleMounts(config, role)

\* The calls that change the store and the calls that only read.
LifecycleOps == {"CreatePod", "UpdatePod", "DeletePod"}
ReadOps ==
  {"GetPod", "GetPodStatus", "GetPods", "Capacity", "NodeConditions",
   "NodeAddresses", "NodeDaemonEndpoints", "OperatingSystem"}

\* Every step of a CreatePod, UpdatePod or DeletePod, up to and including the
\* one that returns its result or its error, leaves every key but its own as
\* it was: stored with the same pod, or not stored.
OtherKeysStay ==
  \A t \in Threads :
    StepOf(t) /\ call'[t].op \in LifecycleOps =>
      \A k \in (DOMAIN pods \cup DOMAIN pods') \ {call'[t].key} :
        k \in DOMAIN pods /\ k \in DOMAIN pods' /\ pods'[k] = pods[k]

\* Every step of a reading call leaves the store, the package variables, the
\* files and the containers as they were.
ReadsChangeNothing ==
  \A t \in Threads :
    StepOf(t) /\ call'[t].op \in ReadOps => UNCHANGED <<pods, globals, host>>

\* C22: a CreatePod, UpdatePod or DeletePod on key k, whether it succeeds or
\* fails, leaves the store entry of every other key unchanged; GetPod, GetPods,
\* GetPodStatus, Capacity and the node descriptor calls leave the whole store,
\* the mesh identity and the containers unchanged.
C22_Frame == [][OtherKeysStay /\ ReadsChangeNothing]_vars

\* C22 witness: a DeletePod has failed on docker rm, with its own key removed
\* and another key still stored, while a container runs.
C22_Witness ==
  \E t \in Threads :
    /\ Finished(t, "DeletePod")
    /\ call[t].ret.err = ErrDockerRm
    /\ DOMAIN pods \ {call[t].key} # {}
    /\ running # <<>>

\* C23 (as stated): the daemon configuration carries exactly the scalar
\* settings of the startup directives (AutoConnect, ConnectTo, Device,
\* DeviceType, Mode, Name), in the same order and with the same values, the
\* lines differing only by the missing "add " prefix; it contains no other
\* setting.
C23_DaemonConfigSameSettings ==
  \A t \in Threads :
    call[t].op = "CreatePod" /\ Len(call[t].wrote) >= 2 =>
      LET startup == call[t].wrote[1].data
          main == call[t].wrote[2].data
      IN /\ Len(main) = 6
         /\ \A i \in 1..6 : "add " \o main[i] = startup[i]

\* A CreatePod whose file writes and docker commands all succeeded has left
\* its pod stored, its role's three files written and its role's container
\* running with those files mounted: the state named Provisioned, whatever
\* the state before the call.
CreateProvisions ==
  \A t \in Threads :
    /\ Finished(t, "CreatePod")
    /\ call[t].ret.err = NoError
    /\ \A i \in DOMAIN call[t].issued : call[t].issued[i].ok
    => Provisioned(call[t].arg[1])

\* After a docker rm that succeeded, no container of that name is left for
\* the docker run of the call to fail on.
RecreateCanRun ==
  \A t \in Threads :
    call[t].pc = "create_run" /\ call[t].issued[1].ok =>
      call[t].issued[1].name \notin DOMAIN running

\* The steps of a CreatePod change nothing else: no other key of the store,
\* no file but the three of its role, no container but the one of its role.
CreateTouchesOwn ==
  \A t \in Threads :
    StepOf(t) /\ call'[t].op = "CreatePod" =>
      LET role == call'[t].arg[1].vpnmode
          own == {RoleArtifacts(config, role)[i].path : i \in 1..3}
      IN /\ \A k \in (DOMAIN pods \cup DOMAIN pods') \ {call'[t].key} :
              k \in DOMAIN pods /\ k \in DOMAIN pods' /\ pods'[k] = pods[k]
         /\ \A f \in (DOMAIN files \cup DOMAIN files') \ own :
              f \in DOMAIN files /\ f \in DOMAIN files' /\ files'[f] = files[f]
         /\ \A c \in (DOMAIN running \cup DOMAIN running') \ {RoleContainer(role)} :
              c \in DOMAIN running /\ c \in DOMAIN running' /\ running'[c] = running[c]

\* C24: CreatePod is idempotent as a recreate: CreatePod(r) twice in a row,
\* with every docker command succeeding, leaves the same store, the same three
\* files and exactly one running mesh container of that name as CreatePod(r)
\* once; the second call does not fail because the container already exists.
C24_RecreateIdempotent ==
  /\ [](CreateProvisions /\ RecreateCanRun)
  /\ [][CreateTouchesOwn]_vars

\* C24 witness: a CreatePod that began in the state a successful CreatePod of
\* the same pod had left has succeeded, all its commands having succeeded.
C24_Witness ==
  \E t \in Threads :
    /\ Finished(t, "CreatePod")
    /\ call[t].again
    /\ call[t].ret.err = NoError
    /\ Len(call[t].issued) = 2
    /\ call[t].issued[1].ok /\ call[t].issued[2].ok
    /\ Provisioned(call[t].arg[1])

\* The docker step of a DeletePod that leaves pods in the store leaves every
\* running container running.
DeleteKeepsContainer ==
  \A t \in Threads :
    call[t].pc = "delete_rm" /\ StepOf(t) /\ pods' # <<>> =>
      \A c \in DOMAIN running : c \in DOMAIN running'

\* C25 (as stated): after a CreatePod that started the mesh container, the
\* container stays running for as long as at least one pod remains in the
\* store: a DeletePod of one pod does not tear down the mesh container while
\* other pods are still stored.
C25_ContainerFollowsStore == [][DeleteKeepsContainer]_vars

====
